---- MODULE Spec2Model ----
(***************************************************************************)
(* Generation dispatcher (App.handleGenerate), upload/analysis             *)
(* (App.handleFileUpload) and the mask-based refinement editor (Editor,    *)
(* EditorCanvas, App.handleRefine) of the Global Brand Expansion Engine.   *)
(*                                                                         *)
(* The program is single threaded.  An action is one event-loop task: a    *)
(* user event, or the settling of one network promise.  A promise          *)
(* continuation that the task queues runs before any other task; where it  *)
(* is a step of its own (Publish), every other action waits for it.        *)
(*                                                                         *)
(* What the environment supplies is an input of the action that reads it:  *)
(* the credential process.env.API_KEY at each getAIClient call, the        *)
(* selection the user has toggled together at the click on Generate.       *)
(***************************************************************************)
EXTENDS Integers, Sequences, FiniteSets, TLC

\* ------------------------------------------------------------------ bounds
MaxCat == 2          \* how many of the selectable categories are modelled
MaxCalls == 5        \* handleFileUpload plus generateBrandAsset calls per behaviour
MaxHist == 1         \* length of the history of a gallery asset given to the editor
MaxRefines == 2      \* onRefine calls per behaviour
MaxOverlap == 1      \* strokes painted over the observed pixel
MaxSide == 2         \* width and height of the canvas that is rasterized
MaxStrokes == 2      \* stroke segments drawn on that canvas
MaxSends == 2        \* handleSend calls on that canvas
MaxPolls == 2        \* getVideosOperation requests of one video job
MaxParts == 2        \* parts of the content of a generateContent response

\* The alpha of 'rgba(255, 255, 255, 0.5)' and of an opaque pixel.
BrushAlpha == 128
Opaque == 255

\* CATEGORY_GROUPS: the item ids the sidebar offers for selection.
CategoryIds == <<"T-Shirt", "Cap", "Billboard", "Poster", "Mug", "Tote">>

Categories ==
    {CategoryIds[i] : i \in 1..(IF MaxCat < Len(CategoryIds) THEN MaxCat
                                ELSE Len(CategoryIds))}

\* ------------------------------------------------------------- JS values
\* A property the object literal does not set reads as undefined.
Undefined == [tag |-> "undefined"]
Arr(s) == [tag |-> "array", items |-> s]
Null == [tag |-> "null"]
Str(chars) == [tag |-> "string", chars |-> chars]
\* The string `data:image/png;base64,${data}`.
DataUrl(n) == [tag |-> "string", prefix |-> "data:image/png;base64,", data |-> n]
\* The object generateBrandAsset resolves with.
MediaObj(n, mt) == [tag |-> "object", url |-> DataUrl(n), mediaType |-> mt]

VARIABLES
    brandDNA,         \* 0 = null, u = the profile analysed from upload u
    generatedAssets,  \* the gallery: sequence of assets
    status,           \* 'idle' | 'analyzing' | 'generating' | 'error'
    editingAsset,     \* Null or the asset object handed to <Editor>
    crashed,          \* a render threw: React unmounted the tree
    uploads,          \* the handleFileUpload calls so far: position of each
    batches,          \* the handleGenerate calls so far: jobs and results
    calls,            \* handleFileUpload and generateBrandAsset calls so far
    instruction,      \* Editor: the instruction text
    isProcessing,     \* Editor: a refinement of this session is in flight
    isDrawing,        \* EditorCanvas: the mouse button is down on the canvas
    dimensions,       \* EditorCanvas: dimensions.w, 0 until the image loaded
    layer,            \* EditorCanvas: the drawing layer, observed at one pixel
                      \* (its alpha)
    refines,          \* the onRefine (handleRefine) calls so far
    lastEvent,        \* what the latest event did, if it was a send, an
                      \* undo click, an alert or a click on a disabled
                      \* Generate button; "none" otherwise
    raster,           \* one canvas and the mask handleSend last made of it
    video,            \* one generateBrandVideo call
    gateway           \* one generateBrandAsset or refineAsset call, with the
                      \* response it got

appVars == <<brandDNA, generatedAssets, status, editingAsset, crashed,
             uploads, batches, calls>>
edState == <<instruction, isProcessing, isDrawing, dimensions, layer, refines>>
edVars == <<instruction, isProcessing, isDrawing, dimensions, layer, refines,
            lastEvent>>
fnVars == <<raster, video, gateway>>
vars == <<brandDNA, generatedAssets, status, editingAsset, crashed, uploads,
          batches, calls, instruction, isProcessing, isDrawing, dimensions,
          layer, refines, lastEvent, raster, video, gateway>>

Uploads == 1..Len(uploads)
Batches == 1..Len(batches)

\* What the try/catch around one job makes of the way generateBrandAsset
\* ended: the asset is pushed, or the error is logged and dropped.
JobState(out) == IF out = "ok" THEN "ok" ELSE "failed"

\* crypto.randomUUID(): a value no other asset has.  Within a call the
\* categories are distinct (selectedItems is a Set), so (call, category)
\* names the job.
CatIndex(c) == CHOOSE i \in 1..Len(CategoryIds) : CategoryIds[i] = c
randomUUID(b, c) == (b - 1) * Len(CategoryIds) + CatIndex(c)
BatchOf(id) == ((id - 1) \div Len(CategoryIds)) + 1

\* A call that has returned: its locals are gone.
DoneBatch == [st |-> "done", dna |-> 0,
              jobs |-> [c \in Categories |-> "none"], results |-> <<>>]
\* A call whose continuation can no longer change anything (tree unmounted).
LostBatch == [DoneBatch EXCEPT !.st = "lost"]

\* The texts the instruction input may hold: empty, or the placeholder's
\* first example.
Texts == {"", "Make the logo bigger"}

\* The drawing layer after clearRect: transparent.
Blank == 0

\* A freshly mounted <Editor>: useState('') / useState(false) /
\* useState({ w: 0, h: 0 }) and a transparent canvas.
EditorMounted ==
    /\ instruction' = ""
    /\ isProcessing' = FALSE
    /\ isDrawing' = FALSE
    /\ dimensions' = 0
    /\ layer' = Blank

\* No canvas is being rasterized, no video job was started, no gateway
\* call is followed.
NoRaster ==
    [w |-> 0, h |-> 0, data |-> <<>>, strokes |-> <<>>, sends |-> 0,
     mask |-> Null]
NoVideo == [pc |-> "none"]
NoGateway == [pc |-> "none"]

Init ==
    /\ brandDNA = 0
    /\ generatedAssets = <<>>
    /\ status = "idle"
    /\ editingAsset = Null
    /\ crashed = FALSE
    /\ uploads = <<>>
    /\ batches = <<>>
    /\ calls = 0
    /\ instruction = ""
    /\ isProcessing = FALSE
    /\ isDrawing = FALSE
    /\ dimensions = 0
    /\ layer = Blank
    /\ refines = <<>>
    /\ lastEvent = "none"
    /\ raster = NoRaster
    /\ video = NoVideo
    /\ gateway = NoGateway

\* A promise continuation is queued (await Promise.all has resolved).
MicrotaskQueued ==
    \E b \in Batches :
        /\ batches[b].st = "running"
        /\ \A c \in Categories : batches[b].jobs[c] # "pending"

\* The editor modal (fixed inset-0) covers the page while it is open.
PageReachable == ~crashed /\ ~MicrotaskQueued /\ editingAsset = Null

\* getAIClient throws unless process.env.API_KEY is set.
getAIClientThrows(key) == ~key

\* ------------------------------------------------------ handleFileUpload
\* Called by DropZone; runs to the await of fileToBase64.
UploadStart ==
    /\ PageReachable
    /\ calls < MaxCalls
    /\ calls' = calls + 1
    /\ status' = "analyzing"
    /\ uploads' = Append(uploads, "reading")
    /\ UNCHANGED <<brandDNA, generatedAssets, editingAsset, crashed, batches>>
    /\ UNCHANGED edState
    /\ lastEvent' = "none"
    /\ UNCHANGED fnVars

\* fileToBase64 resolved: the gallery is cleared and analyzeBrandDNA is
\* called; it throws at getAIClient when no key is set, which the catch
\* turns into the error status.
UploadRead(u, key) ==
    /\ ~crashed /\ ~MicrotaskQueued
    /\ uploads[u] = "reading"
    /\ generatedAssets' = <<>>
    /\ IF getAIClientThrows(key)
       THEN /\ status' = "error"
            /\ uploads' = [uploads EXCEPT ![u] = "done"]
       ELSE /\ uploads' = [uploads EXCEPT ![u] = "analyzing"]
            /\ UNCHANGED status
    /\ UNCHANGED <<brandDNA, editingAsset, crashed, batches, calls>>
    /\ UNCHANGED edState
    /\ lastEvent' = "none"
    /\ UNCHANGED fnVars

\* fileToBase64 rejected (reader.onerror): caught before the gallery is
\* cleared.
UploadReadFail(u) ==
    /\ ~crashed /\ ~MicrotaskQueued
    /\ uploads[u] = "reading"
    /\ status' = "error"
    /\ uploads' = [uploads EXCEPT ![u] = "done"]
    /\ UNCHANGED <<brandDNA, generatedAssets, editingAsset, crashed, batches, calls>>
    /\ UNCHANGED edState
    /\ lastEvent' = "none"
    /\ UNCHANGED fnVars

\* analyzeBrandDNA resolved with a profile.
AnalyzeOk(u) ==
    /\ ~crashed /\ ~MicrotaskQueued
    /\ uploads[u] = "analyzing"
    /\ brandDNA' = u
    /\ status' = "idle"
    /\ uploads' = [uploads EXCEPT ![u] = "done"]
    /\ UNCHANGED <<generatedAssets, editingAsset, crashed, batches, calls>>
    /\ UNCHANGED edState
    /\ lastEvent' = "none"
    /\ UNCHANGED fnVars

\* analyzeBrandDNA rejected (transport error, empty text, bad JSON).
AnalyzeFail(u) ==
    /\ ~crashed /\ ~MicrotaskQueued
    /\ uploads[u] = "analyzing"
    /\ status' = "error"
    /\ uploads' = [uploads EXCEPT ![u] = "done"]
    /\ UNCHANGED <<brandDNA, generatedAssets, editingAsset, crashed, batches, calls>>
    /\ UNCHANGED edState
    /\ lastEvent' = "none"
    /\ UNCHANGED fnVars

\* -------------------------------------------------------- handleGenerate
\* The object literal pushed to results: id, category, imageUrl (the value
\* generateBrandAsset resolved with), prompt, timestamp.  It sets no
\* history and no mediaType.
NewAsset(id, c, media) ==
    [id |-> id, category |-> c, imageUrl |-> media, history |-> Undefined,
     mediaType |-> Undefined]

Pending(b) == {c \in Categories : batches[b].jobs[c] = "pending"}

\* The Generate button is enabled (and handleGenerate does not return at
\* its first line).
GenerateEnabled(selectedItems) ==
    /\ brandDNA # 0
    /\ status # "generating"
    /\ selectedItems # {}

\* A click on the Generate button while it is disabled: the browser
\* dispatches no click event and handleGenerate is not called.  (Its own
\* first line, if (!brandDNA || selectedItems.size === 0) return, would
\* return without setting the status or the error message.)
GenerateIgnored(selectedItems) ==
    /\ PageReachable
    /\ ~GenerateEnabled(selectedItems)
    /\ lastEvent' = "generateDisabled"
    /\ UNCHANGED <<appVars, edState, fnVars>>

\* Click on Generate: handleGenerate runs to Promise.all; each job runs
\* generateBrandAsset to its first await, where a job that throws at
\* getAIClient is caught at once.
Dispatch(selectedItems, key) ==
    /\ PageReachable
    /\ GenerateEnabled(selectedItems)
    /\ calls + Cardinality(selectedItems) <= MaxCalls
    /\ calls' = calls + Cardinality(selectedItems)
    /\ LET first == IF getAIClientThrows(key) THEN JobState("errCredential")
                    ELSE "pending"
       IN  batches' = Append(batches,
               [st |-> "running", dna |-> brandDNA,
                jobs |-> [c \in Categories |->
                            IF c \in selectedItems THEN first ELSE "none"],
                results |-> <<>>])
    /\ status' = "generating"
    /\ UNCHANGED <<brandDNA, generatedAssets, editingAsset, crashed, uploads>>
    /\ UNCHANGED edState
    /\ lastEvent' = "none"
    /\ UNCHANGED fnVars

\* Mutant of ResultsAfter: a failed job discards its siblings' results.
ResultsAfterFailFast(results, b, c, out) ==
    IF out = "ok"
    THEN Append(results, NewAsset(randomUUID(b, c), c,
                                  MediaObj(randomUUID(b, c), "image")))
    ELSE <<>>

\* The results array after job c of call b settled with outcome out.
ResultsAfter(results, b, c, out) ==
    IF out = "ok"
    THEN Append(results, NewAsset(randomUUID(b, c), c,
                                  MediaObj(randomUUID(b, c), "image")))
    ELSE results

\* Mutant of GalleryAfterJob: every settled job publishes the results.
GalleryAfterEachJob(prev, results) == prev \o results

\* The gallery after one job settled: results is local to the call.
GalleryAfterJob(prev, results) == prev

\* Mutant of StatusAfterJob: a job's failure reaches the outer catch.
StatusAfterJobEscaping(st, out) == IF out = "ok" THEN st ELSE "error"

\* The status after one job settled: the job's own catch only logs.
StatusAfterJob(st, out) == st

\* One job's generateContent call settles: on success the asset is pushed
\* to results, on failure the job's catch logs the error.
JobSettle(b, c, out) ==
    /\ ~crashed /\ ~MicrotaskQueued
    /\ batches[b].st = "running"
    /\ batches[b].jobs[c] = "pending"
    /\ LET res == ResultsAfter(batches[b].results, b, c, out)
       IN  /\ batches' = [batches EXCEPT ![b].jobs[c] = JobState(out),
                                         ![b].results = res]
           /\ generatedAssets' = GalleryAfterJob(generatedAssets, res)
    /\ status' = StatusAfterJob(status, out)
    /\ UNCHANGED <<brandDNA, editingAsset, crashed, uploads, calls>>
    /\ UNCHANGED edState
    /\ lastEvent' = "none"
    /\ UNCHANGED fnVars

\* Mutant of Published: the batch replaces the gallery.
PublishedReplacing(prev, results) == results

\* setGeneratedAssets(prev => [...prev, ...results])
Published(prev, results) == prev \o results

\* The continuation of await Promise.all: the batch is published and the
\* status returns to idle; the call's locals are gone.
Publish(b) ==
    /\ ~crashed
    /\ batches[b].st = "running" /\ Pending(b) = {}
    /\ generatedAssets' = Published(generatedAssets, batches[b].results)
    /\ status' = "idle"
    /\ batches' = [batches EXCEPT ![b] = DoneBatch]
    /\ UNCHANGED <<brandDNA, editingAsset, crashed, uploads, calls>>
    /\ UNCHANGED edState
    /\ lastEvent' = "none"
    /\ UNCHANGED fnVars

\* ----------------------------------------------------------------- editor
\* <Editor> renders hasHistory={asset.history.length > 0}: reading .length
\* of undefined throws.
RenderThrows(asset) == asset.history = Undefined

\* Click on a gallery card: setEditingAsset(asset), then <Editor> renders.
\* When the render throws, React unmounts the tree: the state of App is
\* discarded and no continuation still in flight can change anything.
ClickAsset(i) ==
    /\ PageReachable
    /\ i \in 1..Len(generatedAssets)
    /\ IF RenderThrows(generatedAssets[i])
       THEN /\ crashed' = TRUE
            /\ editingAsset' = Null
            /\ brandDNA' = 0
            /\ generatedAssets' = <<>>
            /\ status' = "idle"
            /\ uploads' = [u \in Uploads |-> "lost"]
            /\ batches' = [b \in Batches |-> LostBatch]
       ELSE /\ editingAsset' = generatedAssets[i]
            /\ UNCHANGED <<crashed, brandDNA, generatedAssets, status,
                           uploads, batches>>
    /\ EditorMounted
    /\ lastEvent' = "none"
    /\ UNCHANGED <<calls, refines>>
    /\ UNCHANGED fnVars

\* onClose={() => setEditingAsset(null)}: <Editor> unmounts, its state is
\* discarded, and the setters its pending callbacks hold do nothing.
Unmounted(rs) == [r \in 1..Len(rs) |-> [rs[r] EXCEPT !.live = FALSE]]

Close ==
    /\ ~crashed /\ editingAsset # Null
    /\ editingAsset' = Null
    /\ EditorMounted
    /\ refines' = Unmounted(refines)
    /\ lastEvent' = "none"
    /\ UNCHANGED <<brandDNA, generatedAssets, status, crashed, uploads,
                   batches, calls>>
    /\ UNCHANGED fnVars

\* img.onload: setDimensions, then the effect sizes and clears the canvas.
ImgLoad ==
    /\ ~crashed /\ editingAsset # Null
    /\ dimensions = 0
    /\ dimensions' = 1
    /\ layer' = Blank
    /\ lastEvent' = "none"
    /\ UNCHANGED <<brandDNA, generatedAssets, status, editingAsset, crashed,
                   uploads, batches, calls, instruction, isProcessing,
                   isDrawing, refines>>
    /\ UNCHANGED fnVars

\* onChange of the text input: setInstruction(e.target.value).
Type(t) ==
    /\ ~crashed /\ editingAsset # Null
    /\ t # instruction
    /\ instruction' = t
    /\ lastEvent' = "none"
    /\ UNCHANGED <<brandDNA, generatedAssets, status, editingAsset, crashed,
                   uploads, batches, calls, isProcessing, isDrawing,
                   dimensions, layer, refines>>
    /\ UNCHANGED fnVars

\* onMouseDown on the canvas, which has an area once dimensions are set.
startDraw ==
    /\ ~crashed /\ editingAsset # Null
    /\ dimensions > 0
    /\ ~isDrawing
    /\ isDrawing' = TRUE
    /\ lastEvent' = "none"
    /\ UNCHANGED <<brandDNA, generatedAssets, status, editingAsset, crashed,
                   uploads, batches, calls, instruction, isProcessing,
                   dimensions, layer, refines>>
    /\ UNCHANGED fnVars

\* strokeStyle rgba(255, 255, 255, 0.5) composited source-over onto a
\* pixel of alpha a.
Over(a) == BrushAlpha + (a * (Opaque - BrushAlpha) + (Opaque \div 2)) \div Opaque

RECURSIVE AlphaOf(_)
AlphaOf(k) == IF k = 0 THEN 0 ELSE Over(AlphaOf(k - 1))

\* onMouseMove: a stroke segment covering the observed pixel.
draw ==
    /\ ~crashed /\ editingAsset # Null
    /\ isDrawing
    /\ layer < AlphaOf(MaxOverlap)
    /\ layer' = Over(layer)
    /\ lastEvent' = "none"
    /\ UNCHANGED <<brandDNA, generatedAssets, status, editingAsset, crashed,
                   uploads, batches, calls, instruction, isProcessing,
                   isDrawing, dimensions, refines>>
    /\ UNCHANGED fnVars

\* onMouseUp / onMouseLeave.
stopDraw ==
    /\ ~crashed /\ editingAsset # Null
    /\ isDrawing
    /\ isDrawing' = FALSE
    /\ lastEvent' = "none"
    /\ UNCHANGED <<brandDNA, generatedAssets, status, editingAsset, crashed,
                   uploads, batches, calls, instruction, isProcessing,
                   dimensions, layer, refines>>
    /\ UNCHANGED fnVars

\* Mutant of MaskRGBA: only a pixel painted more than once becomes white.
MaskRGBAThreshold(alpha) ==
    IF alpha > BrushAlpha THEN <<Opaque, Opaque, Opaque, Opaque>>
    ELSE <<0, 0, 0, Opaque>>

\* handleSend's loop body: the R, G, B, A written to destData for a source
\* pixel of the given alpha.
MaskRGBA(alpha) ==
    IF alpha > 0 THEN <<Opaque, Opaque, Opaque, Opaque>>
    ELSE <<0, 0, 0, Opaque>>

\* handleSend's loop: a pixel of the layer with alpha > 0 becomes opaque
\* white, any other opaque black (the value is the red channel).
MaskOf(alpha) == MaskRGBA(alpha)[1]

\* handleSend on a whole canvas: maskCanvas takes the width and height in
\* dimensions, createImageData(w, h) has one pixel for each pixel that
\* getImageData(0, 0, w, h) read from the drawing layer.
Rasterize(w, h, data) ==
    [w |-> w, h |-> h, data |-> [i \in 1..(w * h) |-> MaskRGBA(data[i])]]

\* onMouseMove on the canvas of raster: a stroke segment over pixel p.
RasterDraw(p) ==
    /\ raster.w > 0
    /\ Len(raster.strokes) < MaxStrokes
    /\ raster' = [raster EXCEPT !.data[p] = Over(raster.data[p]),
                                !.strokes = Append(raster.strokes, p)]
    /\ UNCHANGED <<appVars, edVars, video, gateway>>

\* Mutant of LayerAfterSend: exporting the mask clears the drawing layer.
LayerAfterSendCleared(data) == [i \in 1..Len(data) |-> 0]

\* The drawing layer after handleSend: getImageData only reads it.
LayerAfterSend(data) == data

\* handleSend on the canvas of raster.
RasterSend ==
    /\ raster.w > 0
    /\ raster.sends < MaxSends
    /\ raster' = [raster EXCEPT
                     !.mask = Rasterize(raster.w, raster.h, raster.data),
                     !.data = LayerAfterSend(raster.data),
                     !.sends = raster.sends + 1]
    /\ UNCHANGED <<appVars, edVars, video, gateway>>

\* maskCanvas.toDataURL('image/png')
toDataURL(pix) == [tag |-> "string", prefix |-> "data:image/png;base64,", data |-> pix]

\* base64.replace(/^data:image\/(png|jpeg|jpg|webp);base64,/, '')
stripBase64Prefix(base64) ==
    IF base64.prefix \in {"data:image/png;base64,", "data:image/jpeg;base64,",
                          "data:image/jpg;base64,", "data:image/webp;base64,"}
    THEN [tag |-> "string", prefix |-> "", data |-> base64.data]
    ELSE base64

\* Mutant of hasHistory: the Undo button is rendered for every asset.
hasHistoryAlways(asset) == Len(asset.history.items) >= 0

\* hasHistory={asset.history.length > 0}
hasHistory(asset) == Len(asset.history.items) > 0

\* Mutant of ExportGate: the instruction is not tested.
ExportGateNoText(instr, processing) == ~processing

\* onExportMask: if(instruction && !isProcessing)
ExportGate(instr, processing) == instr # "" /\ ~processing

\* generatedAssets.find(a => a.id === assetId): its index, 0 for undefined.
Find(assets, id) ==
    IF \E i \in 1..Len(assets) : assets[i].id = id
    THEN CHOOSE i \in 1..Len(assets) :
             /\ assets[i].id = id
             /\ \A j \in 1..(i - 1) : assets[j].id # id
    ELSE 0

\* The image the gateway answers refine call r with.
RefinedMedia(r) == 100 + r

\* The promise handleRefine returned: its catch handles every error.
PromiseAfterRefine(out) == "fulfilled"

\* What handleRefine's try/catch makes of the way refineAsset ended: the
\* gallery is updated, or the error's message is alerted.
RefineState(out) == IF out \in {"ok", "notFound"} THEN out ELSE "failed"

\* A handleRefine call that has returned: its arguments and locals are gone.
Returned(rec, out) ==
    [assetId |-> 0, mask |-> <<>>, instruction |-> rec.instruction,
     sent |-> <<>>, live |-> FALSE,
     st |-> PromiseAfterRefine(out), out |-> RefineState(out)]

\* Mutant of RefineSource: the asset's first image is refined again.
RefineSourceOriginal(asset) ==
    IF Len(asset.history.items) > 0 THEN asset.history.items[1]
    ELSE asset.imageUrl

\* refineAsset(asset.imageUrl, mask, instruction): the image handed to the
\* gateway is the imageUrl of the gallery asset found by id.
RefineSource(asset) == asset.imageUrl

\* refineAsset throws before any request: getAIClient without a key, or
\* stripBase64Prefix on a value that has no replace method.
refineAssetThrows(key, url) == getAIClientThrows(key) \/ url.tag # "string"

\* The button or the Enter key: handleSend builds the mask and calls
\* onExportMask, which calls onRefine (handleRefine) when its gate is open.
\* handleRefine runs to the await inside refineAsset; when it ends before
\* that (asset not found, refineAsset threw and the catch alerted), the
\* finally callback of onExportMask follows at once.
Send(via, key) ==
    /\ ~crashed /\ editingAsset # Null
    /\ via = "button" => (instruction # "" /\ ~isProcessing)
    /\ IF dimensions = 0
       THEN \* getImageData(0, 0, 0, 0) throws IndexSizeError
            /\ lastEvent' = "none"
            /\ UNCHANGED <<instruction, isProcessing, refines>>
       ELSE IF ~ExportGate(instruction, isProcessing)
       THEN /\ lastEvent' = "sendGated"
            /\ UNCHANGED <<instruction, isProcessing, refines>>
       ELSE /\ Len(refines) < MaxRefines
            /\ LET i == Find(generatedAssets, editingAsset.id)
                   mask == toDataURL(MaskOf(layer))
                   out == IF i = 0 THEN "notFound"
                          ELSE IF refineAssetThrows(key, generatedAssets[i].imageUrl)
                               THEN "errCredential"
                               ELSE "pending"
                   call == [assetId |-> editingAsset.id,
                            mask |-> mask,
                            instruction |-> instruction,
                            sent |-> IF out = "pending"
                                     THEN <<stripBase64Prefix(RefineSource(generatedAssets[i])),
                                            stripBase64Prefix(mask)>>
                                     ELSE <<>>,
                            live |-> TRUE, st |-> "pending", out |-> "pending"]
               IN  /\ refines' = Append(refines,
                          IF out = "pending" THEN call ELSE Returned(call, out))
                   /\ isProcessing' = (out = "pending")
                   /\ instruction' = IF out = "pending" THEN instruction ELSE ""
                   /\ lastEvent' = IF out = "errCredential" THEN "alert"
                                   ELSE "none"
    /\ UNCHANGED <<brandDNA, generatedAssets, status, editingAsset, crashed,
                   uploads, batches, calls, isDrawing, dimensions, layer>>
    /\ UNCHANGED fnVars

\* Mutant of AssetsAfterRefine: the new image is written to every asset.
AssetsAfterRefineAll(prev, id, r, out) ==
    IF out = "ok"
    THEN [i \in 1..Len(prev) |-> [prev[i] EXCEPT !.imageUrl = DataUrl(RefinedMedia(r))]]
    ELSE prev

\* prev.map(a => a.id === assetId ? { ...a, imageUrl: newImageBase64 } : a)
\* on success; the catch leaves the gallery alone.
AssetsAfterRefine(prev, id, r, out) ==
    IF out = "ok"
    THEN [i \in 1..Len(prev) |->
            IF prev[i].id = id
            THEN [prev[i] EXCEPT !.imageUrl = DataUrl(RefinedMedia(r))]
            ELSE prev[i]]
    ELSE prev

\* Mutant of EditingAfterRefine: the editor is closed on failure too.
EditingAfterRefineClosing(editing, out) == Null

\* Mutant of EditingAfterRefine: the editor stays open after a success.
EditingAfterRefineKeeping(editing, out) == editing

\* setEditingAsset(null) on success only.
EditingAfterRefine(editing, out) == IF out = "ok" THEN Null ELSE editing

\* Mutant of ProcessingAfterFinally: the flag is reset by then(), which a
\* failed call is taken not to reach.
ProcessingAfterThen(processing, live, out) ==
    IF live /\ out = "ok" THEN FALSE ELSE processing

\* .finally(() => { setIsProcessing(false); ... }): the setter acts on the
\* <Editor> that submitted, if it is still mounted, however the call ended.
ProcessingAfterFinally(processing, live, out) ==
    IF live THEN FALSE ELSE processing

\* The generateContent call of refine call r settles; handleRefine resumes,
\* then the finally callback of onExportMask runs, whose setters act only
\* on the <Editor> that submitted, if it is still mounted.
RefineSettle(r, out) ==
    /\ ~crashed
    /\ refines[r].st = "pending"
    /\ generatedAssets' = AssetsAfterRefine(generatedAssets, refines[r].assetId, r, out)
    /\ LET editing == EditingAfterRefine(editingAsset, out)
           settled == Returned(refines[r], out)
       IN  /\ editingAsset' = editing
           /\ IF editing = Null
              THEN /\ EditorMounted
                   /\ refines' = Unmounted([refines EXCEPT ![r] = settled])
              ELSE /\ refines' = [refines EXCEPT ![r] = settled]
                   /\ isProcessing' = ProcessingAfterFinally(isProcessing, refines[r].live, out)
                   /\ instruction' = IF refines[r].live THEN "" ELSE instruction
                   /\ UNCHANGED <<isDrawing, dimensions, layer>>
    /\ lastEvent' = IF out = "ok" THEN "none" ELSE "alert"
    /\ UNCHANGED <<brandDNA, status, crashed, uploads, batches, calls>>
    /\ UNCHANGED fnVars

\* Mutant of AssetsAfterUndo: the click restores the asset's latest history
\* entry, as an onUndo handler passed by App would.
AssetsAfterUndoReverting(prev, id) ==
    [i \in 1..Len(prev) |->
        IF prev[i].id = id /\ Len(prev[i].history.items) > 0
        THEN [prev[i] EXCEPT
                 !.imageUrl = prev[i].history.items[Len(prev[i].history.items)],
                 !.history = Arr(SubSeq(prev[i].history.items, 1,
                                        Len(prev[i].history.items) - 1))]
        ELSE prev[i]]

\* <Editor asset onClose onRefine />: no onUndo is passed, the button's
\* onClick is undefined and the gallery stays as it is.
AssetsAfterUndo(prev, id) == prev

\* Click on the Undo button, rendered when hasHistory and enabled unless
\* isProcessing.  Its onClick is the onUndo prop, which App does not pass:
\* the click has no handler.
ClickUndo ==
    /\ ~crashed /\ editingAsset # Null
    /\ hasHistory(editingAsset)
    /\ ~isProcessing
    /\ lastEvent' = "undo"
    /\ generatedAssets' = AssetsAfterUndo(generatedAssets, editingAsset.id)
    /\ UNCHANGED <<brandDNA, status, editingAsset, crashed,
                   uploads, batches, calls, instruction, isProcessing,
                   isDrawing, dimensions, layer, refines>>
    /\ UNCHANGED fnVars

\* ------------------------------------------------------ generateBrandVideo
\* The job as the call sees it.  pc is the await the call is suspended at:
\* "submitting" (generateVideos), "waiting" (the 5 s timer), "polling"
\* (getVideosOperation), "fetching" (fetch of the download link),
\* "reading" (videoRes.blob()), or "resolved" / "failed" once it returned
\* or threw.  path lists the states of the job it has gone through;
\* notDone counts the handles with done = false the call has observed,
\* waits the timers it has started, polls and fetches the requests it has
\* sent; batch is the handleGenerate call whose job awaits it (0: none).
VideoTypes == {"Vertical Video", "Horizontal Video"}

\* Mutant of KeepsPolling: the loop is never entered.
KeepsPollingNever(done) == FALSE

\* Mutant of KeepsPolling: the handle is polled once more after it is done
\* (the loop tests the handle it had before the poll).
KeepsPollingOnceMore(done) == ~video.done

\* Mutant of KeepsPolling: the loop gives up after the first poll.
KeepsPollingBounded(done) == ~done /\ video.polls < 1

\* while (!operation.done)
KeepsPolling(done) == ~done

\* A count of what the loop did, kept up to one past MaxPolls.
Counted(n) == IF n <= MaxPolls THEN n + 1 ELSE n

\* The call observes an operation handle whose done flag is d: the loop
\* waits for the next poll, or ends and the download link is read from the
\* response and fetched with the key process.env.API_KEY holds now.
AfterOperation(v, d, link, key) ==
    LET w == [v EXCEPT !.done = d, !.notDone = IF d THEN @ ELSE Counted(@)]
    IN  IF KeepsPolling(d)
        THEN [w EXCEPT !.pc = "waiting",
                       !.waits = Counted(@),
                       !.path = IF v.pc = "submitting" THEN Append(v.path, "Polling")
                                ELSE v.path]
        ELSE IF ~link
        THEN [w EXCEPT !.pc = "failed",
                       !.path = v.path \o (IF d THEN <<"Done">> ELSE <<>>) \o <<"Failed">>]
        ELSE [w EXCEPT !.pc = "fetching",
                       !.fetches = @ + 1,
                       !.path = v.path \o (IF d THEN <<"Done">> ELSE <<>>),
                       !.fetchKey = IF key THEN "key" ELSE "undefined"]

VideoFailed(v) == [v EXCEPT !.pc = "failed", !.path = Append(v.path, "Failed")]

\* generateBrandVideo up to its first await: getAIClient throws, or
\* generateVideos is sent.
VideoCall(type, key, b) ==
    [pc |-> IF getAIClientThrows(key) THEN "failed" ELSE "submitting",
     path |-> IF getAIClientThrows(key) THEN <<"Failed">> ELSE <<"Submitted">>,
     type |-> type, done |-> FALSE, notDone |-> 0, waits |-> 0, polls |-> 0,
     fetches |-> 0, torn |-> FALSE, fetchKey |-> "unread", batch |-> b]

\* The string URL.createObjectURL(blob) returns, and the object
\* generateBrandAsset resolves with for a video type.
BlobUrl(n) == [tag |-> "string", prefix |-> "blob:", data |-> n]
VideoObj(n) == [tag |-> "object", url |-> BlobUrl(n), mediaType |-> "video"]

\* crypto.randomUUID() for the asset of the video job of call b: a value no
\* other asset has.
VideoUUID(b) == 0 - b

\* Mutant of ResultsAfterVideo: the job pushes an asset whether the call
\* resolved or threw.
ResultsAfterVideoAlways(results, v) ==
    Append(results, NewAsset(VideoUUID(v.batch), v.type, VideoObj(VideoUUID(v.batch))))

\* The results array of the handleGenerate call after its video job ended:
\* generateBrandAsset resolved and the asset is pushed, or it threw and the
\* job's catch logs the error.
ResultsAfterVideo(results, v) ==
    IF v.pc = "resolved"
    THEN Append(results, NewAsset(VideoUUID(v.batch), v.type, VideoObj(VideoUUID(v.batch))))
    ELSE results

\* What the end of the call (v is the call after the step) means for the
\* handleGenerate job that awaits it: nothing until it has resolved or
\* thrown, nothing when no job awaits it.
VideoJob(v) ==
    IF v.batch # 0 /\ v.pc \in {"resolved", "failed"}
    THEN /\ batches' = [batches EXCEPT
                           ![v.batch].results = ResultsAfterVideo(@, v)]
         /\ UNCHANGED <<brandDNA, generatedAssets, status, editingAsset,
                        crashed, uploads, calls>>
    ELSE UNCHANGED appVars

\* generateBrandAsset is called with a video type.
VideoStart(type, key) ==
    /\ video.pc = "none"
    /\ video' = VideoCall(type, key, 0)
    /\ UNCHANGED <<appVars, edVars, raster, gateway>>

\* generateVideos settles.
VideoSubmitted(ok, d, link, key) ==
    /\ video.pc = "submitting"
    /\ video' = IF ok THEN AfterOperation(video, d, link, key) ELSE VideoFailed(video)
    /\ VideoJob(video')
    /\ UNCHANGED <<edVars, raster, gateway>>

\* The 5 s timer fires: getVideosOperation is sent through the client made
\* at the start of the call.
VideoTimer ==
    /\ video.pc = "waiting"
    /\ video.polls < MaxPolls
    /\ video' = [video EXCEPT !.pc = "polling", !.polls = video.polls + 1]
    /\ UNCHANGED <<appVars, edVars, raster, gateway>>

\* The timer fires on a job that has already sent MaxPolls poll requests:
\* the request is sent as before and the counts stay where they are.
VideoTimerAgain ==
    /\ video.pc = "waiting"
    /\ video.polls = MaxPolls
    /\ video' = [video EXCEPT !.pc = "polling"]
    /\ UNCHANGED <<appVars, edVars, raster, gateway>>

\* getVideosOperation settles.
VideoPolled(ok, d, link, key) ==
    /\ video.pc = "polling"
    /\ video' = IF ok THEN AfterOperation(video, d, link, key) ELSE VideoFailed(video)
    /\ VideoJob(video')
    /\ UNCHANGED <<edVars, raster, gateway>>

\* fetch settles: a response that is not ok throws, else blob() is read.
VideoFetched(ok) ==
    /\ video.pc = "fetching"
    /\ video' = IF ok THEN [video EXCEPT !.pc = "reading"] ELSE VideoFailed(video)
    /\ VideoJob(video')
    /\ UNCHANGED <<edVars, raster, gateway>>

\* blob() settles: URL.createObjectURL(blob) is returned.
VideoBlob(ok) ==
    /\ video.pc = "reading"
    /\ video' = IF ok THEN [video EXCEPT !.pc = "resolved",
                                         !.path = Append(video.path, "Resolved")]
                ELSE VideoFailed(video)
    /\ VideoJob(video')
    /\ UNCHANGED <<edVars, raster, gateway>>

\* The session that started the job is discarded by a new upload
\* (handleFileUpload clears the gallery and replaces the profile).  Nothing
\* in generateBrandVideo or handleFileUpload tells the job.
VideoTeardown ==
    /\ video.pc \in {"submitting", "waiting", "polling", "fetching", "reading"}
    /\ ~video.torn
    /\ video' = [video EXCEPT !.torn = TRUE]
    /\ UNCHANGED <<appVars, edVars, raster, gateway>>

\* handleGenerate with a selection that holds one video type beside the
\* categories selectedItems: as Dispatch, and the video job runs
\* generateBrandVideo to its first await.
DispatchVideo(selectedItems, type, key) ==
    /\ PageReachable
    /\ brandDNA # 0 /\ status # "generating"
    /\ video.pc = "none"
    /\ calls + Cardinality(selectedItems) + 1 <= MaxCalls
    /\ calls' = calls + Cardinality(selectedItems) + 1
    /\ LET first == IF getAIClientThrows(key) THEN JobState("errCredential")
                    ELSE "pending"
       IN  batches' = Append(batches,
               [st |-> "running", dna |-> brandDNA,
                jobs |-> [c \in Categories |->
                            IF c \in selectedItems THEN first ELSE "none"],
                results |-> <<>>])
    /\ video' = VideoCall(type, key, Len(batches) + 1)
    /\ status' = "generating"
    /\ UNCHANGED <<brandDNA, generatedAssets, editingAsset, crashed, uploads>>
    /\ UNCHANGED edState
    /\ lastEvent' = "none"
    /\ UNCHANGED <<raster, gateway>>

\* The continuation of await Promise.all of a call that has a video job:
\* it runs once the video job has ended too.
PublishVideo(b) ==
    /\ video.batch = b
    /\ video.pc \in {"resolved", "failed"}
    /\ Publish(b)

\* ------------------------------------ generateBrandAsset and refineAsset
\* What generateContent settles with.  A part is { text } (inlineData is
\* undefined), or { inlineData: { mimeType, data } } whose data is a base64
\* string, or { inlineData: { mimeType } } whose data is missing or empty.
TextPart == [inlineData |-> Undefined]
ImagePart(n) == [inlineData |-> [tag |-> "object", data |-> Str(n)]]
BarePart == [inlineData |-> [tag |-> "object", data |-> Undefined]]
Parts == {TextPart, BarePart, ImagePart(1), ImagePart(2)}

\* The request was rejected (network, quota, service error): the SDK's
\* error is thrown at the await.
SdkError == [tag |-> "error", message |-> "sdk"]
\* new Error(message)
Error(message) == [tag |-> "error", message |-> message]

\* The fulfilled responses: candidates missing, candidates empty, the
\* first candidate without content, content without parts, or parts.
Responses ==
    {[shape |-> sh, parts |-> <<>>] :
         sh \in {"noCandidates", "emptyCandidates", "noContent", "noParts"}}
    \cup {[shape |-> "parts", parts |-> ps] :
              ps \in UNION {[1..n -> Parts] : n \in 0..MaxParts}}

\* response.candidates?.[0]?.content?.parts
PartsOf(response) ==
    IF response.shape = "parts" THEN Arr(response.parts) ELSE Undefined

\* parts?.find(p => p.inlineData): the first part whose inlineData is
\* truthy, undefined when there is none or parts is undefined.
FindImagePart(parts) ==
    IF parts = Undefined THEN Undefined
    ELSE IF \E i \in 1..Len(parts.items) : parts.items[i].inlineData # Undefined
    THEN parts.items[CHOOSE i \in 1..Len(parts.items) :
                        /\ parts.items[i].inlineData # Undefined
                        /\ \A j \in 1..(i - 1) : parts.items[j].inlineData = Undefined]
    ELSE Undefined

\* Mutant of NoImage: only the part is tested, not its data.
NoImagePartOnly(imagePart) == imagePart = Undefined

\* !imagePart || !imagePart.inlineData?.data
NoImage(imagePart) ==
    imagePart = Undefined \/ imagePart.inlineData.data = Undefined

\* The message of the error thrown for a response without an image.
NoImageMessage(op) ==
    IF op = "generate" THEN "No image generated" ELSE "Failed to refine image"

\* ${imagePart.inlineData.data} in the template literal: the characters of
\* the string; undefined is written as the text "undefined" (here 0).
Interpolated(data) == IF data = Undefined THEN 0 ELSE data.chars

\* How the call ends once generateContent has settled: the SDK's error, the
\* function's own error, or the returned value.
EndOfCall(op, fulfilled, response) ==
    IF ~fulfilled THEN [kind |-> "throws", value |-> SdkError]
    ELSE LET imagePart == FindImagePart(PartsOf(response))
         IN  IF NoImage(imagePart)
             THEN [kind |-> "throws", value |-> Error(NoImageMessage(op))]
             ELSE [kind |-> "returns",
                   value |-> IF op = "generate"
                             THEN MediaObj(Interpolated(imagePart.inlineData.data), "image")
                             ELSE DataUrl(Interpolated(imagePart.inlineData.data))]

\* The outcome as the settle steps of the dispatcher and of the editor
\* name it.
OutcomeOf(end) ==
    IF end.kind = "returns" THEN "ok"
    ELSE IF end.value = SdkError THEN "errTransport"
    ELSE IF end.value.message = "API Key not found. Please select a key."
    THEN "errCredential"
    ELSE "errNoMedia"

\* What the caller reports: the job of handleGenerate logs
\* console.error(`Failed to generate ${itemType}`, err), handleRefine
\* shows alert("Refinement failed: " + e.message).
ReportOf(op, end) ==
    IF end.kind = "returns" THEN Null
    ELSE IF op = "generate"
    THEN [channel |-> "console.error", text |-> "Failed to generate ",
          error |-> end.value]
    ELSE [channel |-> "alert", text |-> "Refinement failed: ",
          error |-> end.value.message]

\* One job of handleGenerate (op "generate", target a category) or one
\* handleRefine call (op "refine", target the index of a gallery asset)
\* runs to the await of generateContent, or ends at getAIClient.
GatewayCall(op, target, key) ==
    /\ gateway.pc = "none"
    /\ LET end == [kind |-> "throws",
                   value |-> Error("API Key not found. Please select a key.")]
       IN  gateway' =
               IF getAIClientThrows(key)
               THEN [pc |-> "ended", op |-> op, target |-> target,
                     fulfilled |-> FALSE, response |-> Null, end |-> end,
                     report |-> ReportOf(op, end), results |-> <<>>]
               ELSE [pc |-> "awaiting", op |-> op, target |-> target,
                     fulfilled |-> FALSE, response |-> Null, end |-> Null,
                     report |-> Null, results |-> <<>>]
    /\ UNCHANGED <<appVars, edVars, raster, video>>

\* generateContent settles and the caller resumes: the job pushes its
\* asset to results or logs; handleRefine updates the gallery or alerts.
GatewaySettle(fulfilled, response) ==
    /\ gateway.pc = "awaiting"
    /\ fulfilled <=> response # Null
    /\ LET end == EndOfCall(gateway.op, fulfilled, response)
       IN  /\ gateway' = [gateway EXCEPT
                  !.pc = "ended", !.fulfilled = fulfilled,
                  !.response = response, !.end = end,
                  !.report = ReportOf(gateway.op, end),
                  !.results = IF gateway.op = "generate"
                              THEN ResultsAfter(<<>>, Len(batches) + 1,
                                                gateway.target, OutcomeOf(end))
                              ELSE <<>>]
           /\ generatedAssets' =
                  IF gateway.op = "refine"
                  THEN AssetsAfterRefine(generatedAssets,
                                         generatedAssets[gateway.target].id,
                                         Len(refines) + 1, OutcomeOf(end))
                  ELSE generatedAssets
    /\ UNCHANGED <<brandDNA, status, editingAsset, crashed, uploads, batches, calls>>
    /\ UNCHANGED <<edVars, raster, video>>

\* ------------------------------------------------------------------ specs
NextApp ==
    \/ UploadStart
    \/ \E u \in Uploads, key \in BOOLEAN : UploadRead(u, key)
    \/ \E u \in Uploads : UploadReadFail(u)
    \/ \E u \in Uploads : AnalyzeOk(u)
    \/ \E u \in Uploads : AnalyzeFail(u)
    \/ \E S \in SUBSET Categories, key \in BOOLEAN : Dispatch(S, key)
    \/ \E b \in Batches, c \in Categories :
           \E out \in {"ok", "errTransport", "errNoMedia"} : JobSettle(b, c, out)
    \/ \E b \in Batches : Publish(b)
    \/ \E i \in 1..Len(generatedAssets) : ClickAsset(i)

Spec == Init /\ [][NextApp]_vars

\* The App with the clicks that land on a disabled Generate button.
NextAttempts ==
    \/ NextApp
    \/ \E S \in SUBSET Categories : GenerateIgnored(S)

SpecAttempts == Init /\ [][NextAttempts]_vars

\* The editor and handleRefine, given a gallery of GeneratedAsset values as
\* the interface declares them (history: string[]): one asset for each of
\* two categories, asset c with a history of h earlier images, after one
\* upload and one dispatch.
EditorCategories == <<"T-Shirt", "Cap">>

TypedAsset(c, h) ==
    [id |-> randomUUID(1, c), category |-> c,
     imageUrl |-> DataUrl(10 * CatIndex(c) + h),
     history |-> Arr([k \in 1..h |-> DataUrl(10 * CatIndex(c) + k - 1)]),
     mediaType |-> Str("image")]

InitEditor ==
    /\ brandDNA = 1
    /\ \E hs \in [1..Len(EditorCategories) -> 0..MaxHist] :
           generatedAssets = [i \in 1..Len(EditorCategories) |->
                                 TypedAsset(EditorCategories[i], hs[i])]
    /\ uploads = <<"done">>
    /\ status = "idle"
    /\ editingAsset = Null
    /\ crashed = FALSE
    /\ batches = <<DoneBatch>>
    /\ calls = Len(uploads) + Len(EditorCategories)
    /\ instruction = ""
    /\ isProcessing = FALSE
    /\ isDrawing = FALSE
    /\ dimensions = 0
    /\ layer = Blank
    /\ refines = <<>>
    /\ lastEvent = "none"
    /\ raster = NoRaster
    /\ video = NoVideo
    /\ gateway = NoGateway

NextEditor ==
    \/ \E i \in 1..Len(generatedAssets) : ClickAsset(i)
    \/ Close
    \/ ImgLoad
    \/ \E t \in Texts : Type(t)
    \/ startDraw
    \/ draw
    \/ stopDraw
    \/ \E via \in {"button", "enter"}, key \in BOOLEAN : Send(via, key)
    \/ \E r \in 1..Len(refines) :
           \E out \in {"ok", "errTransport", "errNoMedia"} : RefineSettle(r, out)
    \/ ClickUndo

SpecEditor == InitEditor /\ [][NextEditor]_vars

\* handleSend as a function of the drawing layer: the editor is open on
\* one asset, its image has loaded into a canvas of w by h pixels, all
\* transparent; strokes are drawn and the mask is exported.
InitRaster ==
    /\ brandDNA = 1
    /\ generatedAssets = <<TypedAsset(EditorCategories[1], 0)>>
    /\ uploads = <<"done">>
    /\ status = "idle"
    /\ editingAsset = generatedAssets[1]
    /\ crashed = FALSE
    /\ batches = <<DoneBatch>>
    /\ calls = 2
    /\ instruction = ""
    /\ isProcessing = FALSE
    /\ isDrawing = FALSE
    /\ dimensions = 1
    /\ layer = Blank
    /\ refines = <<>>
    /\ lastEvent = "none"
    /\ \E w \in 1..MaxSide, h \in 1..MaxSide :
           raster = [NoRaster EXCEPT !.w = w, !.h = h,
                                     !.data = [i \in 1..(w * h) |-> 0]]
    /\ video = NoVideo
    /\ gateway = NoGateway

\* One call of generateBrandVideo, with a profile analysed.
InitVideo ==
    /\ brandDNA = 1
    /\ generatedAssets = <<>>
    /\ uploads = <<"done">>
    /\ status = "idle"
    /\ editingAsset = Null
    /\ crashed = FALSE
    /\ batches = <<>>
    /\ calls = 1
    /\ instruction = ""
    /\ isProcessing = FALSE
    /\ isDrawing = FALSE
    /\ dimensions = 0
    /\ layer = Blank
    /\ refines = <<>>
    /\ lastEvent = "none"
    /\ raster = NoRaster
    /\ video = NoVideo
    /\ gateway = NoGateway

NextVideo ==
    \/ \E type \in VideoTypes, key \in BOOLEAN : VideoStart(type, key)
    \/ \E ok, d, link, key \in BOOLEAN : VideoSubmitted(ok, d, link, key)
    \/ VideoTimer
    \/ \E ok, d, link, key \in BOOLEAN : VideoPolled(ok, d, link, key)
    \/ \E ok \in BOOLEAN : VideoFetched(ok)
    \/ \E ok \in BOOLEAN : VideoBlob(ok)
    \/ VideoTeardown

SpecVideo == InitVideo /\ [][NextVideo]_vars

\* One handleGenerate call whose selection holds a video type.
NextVideoBatch ==
    \/ \E S \in SUBSET Categories, type \in VideoTypes, key \in BOOLEAN :
           DispatchVideo(S, type, key)
    \/ \E b \in Batches, c \in Categories :
           \E out \in {"ok", "errTransport", "errNoMedia"} : JobSettle(b, c, out)
    \/ \E ok, d, link, key \in BOOLEAN : VideoSubmitted(ok, d, link, key)
    \/ VideoTimer
    \/ \E ok, d, link, key \in BOOLEAN : VideoPolled(ok, d, link, key)
    \/ \E ok \in BOOLEAN : VideoFetched(ok)
    \/ \E ok \in BOOLEAN : VideoBlob(ok)
    \/ \E b \in Batches : PublishVideo(b)

SpecVideoBatch == InitVideo /\ [][NextVideoBatch]_vars

\* The same call with a loop that can go on for ever, under the scheduling
\* of the event loop: a timer that was started fires, a request that was
\* sent settles (it returns or fails), a continuation that was queued
\* runs.  Nothing obliges the user to click.
NextVideoBatchLive ==
    \/ NextVideoBatch
    \/ VideoTimerAgain

SpecVideoBatchLive ==
    /\ InitVideo
    /\ [][NextVideoBatchLive]_vars
    /\ WF_vars(\E b \in Batches, c \in Categories :
                   \E out \in {"ok", "errTransport", "errNoMedia"} : JobSettle(b, c, out))
    /\ WF_vars(\E ok, d, link, key \in BOOLEAN : VideoSubmitted(ok, d, link, key))
    /\ WF_vars(VideoTimer)
    /\ WF_vars(VideoTimerAgain)
    /\ WF_vars(\E ok, d, link, key \in BOOLEAN : VideoPolled(ok, d, link, key))
    /\ WF_vars(\E ok \in BOOLEAN : VideoFetched(ok))
    /\ WF_vars(\E ok \in BOOLEAN : VideoBlob(ok))
    /\ WF_vars(\E b \in Batches : PublishVideo(b))

\* One gateway call made for a job of handleGenerate or by handleRefine,
\* over a gallery as InitEditor gives it.
InitGateway == InitEditor

NextGateway ==
    \/ \E c \in Categories, key \in BOOLEAN : GatewayCall("generate", c, key)
    \/ \E i \in 1..Len(generatedAssets), key \in BOOLEAN : GatewayCall("refine", i, key)
    \/ \E fulfilled \in BOOLEAN, response \in Responses \cup {Null} :
           GatewaySettle(fulfilled, response)

SpecGateway == InitGateway /\ [][NextGateway]_vars

NextRaster ==
    \/ \E p \in 1..(raster.w * raster.h) : RasterDraw(p)
    \/ RasterSend

SpecRaster == InitRaster /\ [][NextRaster]_vars

\* ----------------------------------------------------------------- claims
Selected(b) == {c \in Categories : batches[b].jobs[c] # "none"}
Succeeded(b) == {c \in Categories : batches[b].jobs[c] = "ok"}
Failed(b) == {c \in Categories : batches[b].jobs[c] = "failed"}
GalleryIds == {generatedAssets[i].id : i \in 1..Len(generatedAssets)}
IdsOf(b) == {id \in GalleryIds : BatchOf(id) = b}
IdsOfNext(b) ==
    {id \in {generatedAssets'[i].id : i \in 1..Len(generatedAssets')} : BatchOf(id) = b}

\* The step in which handleGenerate call b returns.
Returns(b) == batches[b].st = "running" /\ batches'[b].st = "done"
\* The step in which job c of call b fails.
JobFails(b, c) == batches[b].jobs[c] = "pending" /\ batches'[b].jobs[c] = "failed"

Added == SubSeq(generatedAssets', Len(generatedAssets) + 1, Len(generatedAssets'))

\* C1: when a dispatch returns, the gallery has grown by exactly one asset
\* for each category whose call succeeded and none for a category whose
\* call failed; the growth never exceeds the selection size.
C1_OneAssetPerSuccess ==
    [][\A b \in Batches : Returns(b) =>
          /\ Len(generatedAssets') = Len(generatedAssets) + Cardinality(Succeeded(b))
          /\ {Added[i].category : i \in 1..Len(Added)} = Succeeded(b)
          /\ \A i \in 1..Len(Added) : BatchOf(Added[i].id) = b
          /\ Len(Added) <= Cardinality(Selected(b))]_vars

\* After one upload, the one dispatch so far had two jobs (three calls in
\* all); it has returned and the gallery shows one asset of it: one job
\* succeeded and one failed.
C1_Witness ==
    /\ Len(uploads) = 1 /\ Len(batches) = 1 /\ calls = 3
    /\ batches[1].st = "done"
    /\ Cardinality(IdsOf(1)) = 1
    /\ status = "idle"

\* The step in which handleGenerate is called and registers call b.
Dispatched(b) == b = Len(batches') /\ Len(batches') = Len(batches) + 1

\* C2: the failure of one job is caught at that job: in the step in which
\* it fails no sibling job changes state, no result collected so far is
\* lost, the call keeps running towards its return, and the dispatcher's
\* status is untouched.  A job that fails at the click (no credential)
\* leaves the call running and the status 'generating', and a call with a
\* failed job returns to the idle status, never to the error status.
C2_FailureIsolated ==
    [][/\ \A b \in Batches, c \in Categories : JobFails(b, c) =>
             /\ \A d \in Categories \ {c} :
                    batches'[b].jobs[d] = batches[b].jobs[d]
             /\ batches'[b].results = batches[b].results
             /\ batches'[b].st = "running"
             /\ status' = status
       /\ \A b \in 1..Len(batches') : Dispatched(b) =>
             /\ batches'[b].st = "running"
             /\ status' = "generating"
       /\ \A b \in Batches : (Returns(b) /\ Failed(b) # {}) =>
             status' = "idle"]_vars

\* One job failed while its sibling is still pending and the dispatcher
\* is generating.
C2_Witness ==
    \E b \in Batches :
        /\ batches[b].st = "running"
        /\ Failed(b) # {} /\ Pending(b) # {}
        /\ status = "generating"

\* C3: the assets of a batch enter the gallery in one step, the step in
\* which the call returns with no job pending, and all successes together;
\* the only other change to them is the gallery being cleared.
C3_BatchPublishedAtOnce ==
    [][\A b \in Batches : IdsOfNext(b) # IdsOf(b) =>
          \/ generatedAssets' = <<>>
          \/ /\ Returns(b) /\ Pending(b) = {}
             /\ IdsOf(b) = {}
             /\ IdsOfNext(b) = {randomUUID(b, c) : c \in Succeeded(b)}]_vars

\* A job of a batch has succeeded while a sibling is pending, and the
\* gallery shows nothing of that batch.
C3_Witness ==
    \E b \in Batches :
        /\ Succeeded(b) # {} /\ Pending(b) # {}
        /\ IdsOf(b) = {}

\* C4: when a dispatch returns, the gallery before it is a prefix of the
\* gallery after it, every prior asset unchanged.
C4_PublishAppends ==
    [][\A b \in Batches : Returns(b) =>
          /\ Len(generatedAssets') >= Len(generatedAssets)
          /\ SubSeq(generatedAssets', 1, Len(generatedAssets)) = generatedAssets]_vars

\* The gallery holds the assets of two batches, the earlier ones first.
C4_Witness ==
    /\ Len(generatedAssets) >= 2
    /\ \E i, j \in 1..Len(generatedAssets) :
           i < j /\ BatchOf(generatedAssets[i].id) # BatchOf(generatedAssets[j].id)

\* ------------------------------------------------------- claims: editor
RefineCalls == 1..Len(refines)
\* The step in which some event handler is entered by a click on Undo.
UndoClicked == lastEvent' = "undo" /\ lastEvent # "undo"
\* The step in which the gateway call of refine call r fails.
RefineFails(r) == refines[r].st = "pending" /\ refines'[r].out = "failed"
\* The step in which onRefine is called and refineAsset throws at once.
RefineThrows ==
    /\ Len(refines') = Len(refines) + 1
    /\ refines'[Len(refines')].out = "failed"
EmptyHistory == Arr(<<>>)

C7_UndoUnavailableOnEmpty ==
    [][UndoClicked =>
          /\ editingAsset.history # EmptyHistory
          /\ \A i \in 1..Len(generatedAssets) :
                 generatedAssets[i].history = EmptyHistory =>
                     /\ Len(generatedAssets') = Len(generatedAssets)
                     /\ generatedAssets'[i] = generatedAssets[i]]_vars

\* The editor shows a loaded asset with empty history and is not
\* processing: the Undo button is not rendered.
C7_Witness ==
    /\ editingAsset # Null
    /\ editingAsset.history = EmptyHistory
    /\ ~hasHistory(editingAsset)
    /\ dimensions > 0 /\ ~isProcessing

\* C8: in the step in which a refine call fails (at the gateway, or at
\* once because refineAsset throws), the gallery is unchanged (the target
\* asset's reference and history, and every other asset), the editor stays
\* open on the same asset and its drawing layer is as it was.
C8_FailedRefineChangesNothing ==
    [][((\E r \in RefineCalls : RefineFails(r)) \/ RefineThrows) =>
          /\ generatedAssets' = generatedAssets
          /\ editingAsset' = editingAsset
          /\ layer' = layer
          /\ dimensions' = dimensions]_vars

\* A refine call has just failed and was alerted; the editor is still open
\* with strokes on its layer and accepts a new submission.
C8_Witness ==
    /\ lastEvent = "alert"
    /\ \E r \in RefineCalls : refines[r].out = "failed"
    /\ editingAsset # Null
    /\ layer > 0
    /\ ~isProcessing

C10_NoEmptyInstruction ==
    \A r \in RefineCalls : refines[r].instruction # ""

\* Enter was pressed on an empty instruction with the image loaded: the
\* gate of onExportMask stopped the submission and no call was made.
C10_Witness ==
    /\ lastEvent = "sendGated"
    /\ instruction = "" /\ ~isProcessing
    /\ dimensions > 0
    /\ refines = <<>>

C17_NewAssetEmptyHistory ==
    \A i \in 1..Len(generatedAssets) : generatedAssets[i].history = EmptyHistory

\* The step in which handleFileUpload call u ends in its catch.
UploadFails(u) ==
    uploads[u] \in {"reading", "analyzing"} /\ uploads'[u] = "done" /\ status' = "error"

\* C19: the step in which an upload fails leaves the gallery as it was.
C19_FailedAnalysisKeepsGallery ==
    [][\A u \in Uploads : UploadFails(u) => generatedAssets' = generatedAssets]_vars

\* The step in which a refine call is handed to the gateway.
RefineIssued ==
    /\ Len(refines') = Len(refines) + 1
    /\ refines'[Len(refines')].st = "pending"

\* C20: a refine call handed to the gateway carries the current media
\* reference of the target asset in the gallery, which is the image the
\* editor shows under the strokes, the mask rasterized from the drawing
\* layer as it is at the submission, and the instruction text of the
\* session.
C20_RefineSendsCurrentMedia ==
    [][RefineIssued =>
          LET call == refines'[Len(refines')]
              i == Find(generatedAssets, editingAsset.id)
          IN  /\ i # 0
              /\ call.assetId = generatedAssets[i].id
              /\ generatedAssets[i].imageUrl = editingAsset.imageUrl
              /\ call.sent[1] = stripBase64Prefix(generatedAssets[i].imageUrl)
              /\ call.sent[2] = stripBase64Prefix(toDataURL(MaskOf(layer)))
              /\ call.mask = toDataURL(MaskOf(layer))
              /\ call.instruction = instruction]_vars

\* An asset that was refined once is being refined again: the pending
\* call carries the image of the first refinement and a mask with the
\* observed pixel painted.
C20_Witness ==
    \E r \in RefineCalls :
        /\ refines[r].st = "pending"
        /\ refines[r].sent[1].data = RefinedMedia(1)
        /\ refines[r].sent[2].data = Opaque
        /\ \E i \in 1..Len(generatedAssets) :
               /\ generatedAssets[i].id = refines[r].assetId
               /\ Len(generatedAssets[i].history.items) > 0

\* The step in which the user asks for a dispatch that cannot start
\* although no dispatch is running: no profile, or nothing selected.
DispatchRefused ==
    /\ lastEvent' = "generateDisabled" /\ lastEvent # "generateDisabled"
    /\ status # "generating"

\* C18: a dispatch asked for with an empty selection or without a profile
\* reports an error outcome.
C18_RefusedDispatchReportsError ==
    [][DispatchRefused => status' = "error"]_vars

\* --------------------------------------------------- claims: rasterizer
White == <<255, 255, 255, 255>>
Black == <<0, 0, 0, 255>>
\* The step in which handleSend runs on the canvas of raster.
SendStep == raster'.sends = raster.sends + 1
Painted == {raster.strokes[k] : k \in 1..Len(raster.strokes)}

\* C12: the mask handleSend makes has the dimensions of the drawing layer
\* and one pixel for each of its pixels; a pixel is opaque white exactly
\* when the layer's alpha there is greater than zero and opaque black
\* otherwise, so a layer without strokes gives an all-black mask.
C12_MaskIsThresholdOfAlpha ==
    [][SendStep =>
          /\ raster'.mask.w = raster.w /\ raster'.mask.h = raster.h
          /\ Len(raster'.mask.data) = Len(raster.data)
          /\ \A i \in 1..Len(raster.data) :
                 /\ raster'.mask.data[i] \in {White, Black}
                 /\ raster'.mask.data[i] = White <=> raster.data[i] > 0
          /\ (raster.strokes = <<>> =>
                 \A i \in 1..Len(raster.data) : raster'.mask.data[i] = Black)]_vars

\* A mask was made of a canvas of more than one pixel on which one pixel
\* was painted twice (partial alpha above one stroke's) and another not at
\* all: the first is white in the mask, the second black.
C12_Witness ==
    /\ raster.mask # Null
    /\ \E i, j \in 1..Len(raster.data) :
           /\ raster.data[i] = AlphaOf(2) /\ raster.mask.data[i] = White
           /\ raster.data[j] = 0 /\ raster.mask.data[j] = Black

\* C13: the mask depends on the drawing layer only through which pixels
\* were painted, whatever the order and the number of the strokes; making
\* it leaves the drawing layer, the strokes and the image under the canvas
\* as they were, so that making it again gives the same mask.
C13_RasterizeIsPure ==
    [][SendStep =>
          /\ \A i \in 1..(raster.w * raster.h) :
                 raster'.mask.data[i] = IF i \in Painted THEN White ELSE Black
          /\ raster'.data = raster.data
          /\ raster'.strokes = raster.strokes
          /\ editingAsset' = editingAsset
          /\ generatedAssets' = generatedAssets
          /\ (raster.mask # Null /\ raster.sends > 0 /\ raster'.mask # raster.mask
                 => raster.mask.data # [i \in 1..(raster.w * raster.h) |->
                                          IF i \in Painted THEN White ELSE Black])]_vars

\* The mask was made twice of a layer on which two strokes overlap in one
\* pixel, and that pixel is white.
C13_Witness ==
    /\ raster.sends = 2
    /\ Len(raster.strokes) = 2
    /\ raster.strokes[1] = raster.strokes[2]
    /\ raster.mask.data[raster.strokes[1]] = White

\* ---------------------------------------------------- claims: video job
Rank(state) ==
    CASE state = "Submitted" -> 1 [] state = "Polling" -> 2
      [] state = "Done" -> 3 [] state = "Resolved" -> 4 [] OTHER -> 5

\* C14: the payload is fetched, read and returned only after a handle with
\* done = true was observed; the states of the job are gone through in the
\* order Submitted, Polling, Done, Resolved (Failed may end it anywhere),
\* and Resolved is never reached without Done.
C14_ResolvedOnlyAfterDone ==
    video.pc # "none" =>
        /\ video.pc \in {"fetching", "reading", "resolved"} =>
               (video.done /\ \E k \in 1..Len(video.path) : video.path[k] = "Done")
        /\ \A k \in 1..(Len(video.path) - 1) :
               Rank(video.path[k]) < Rank(video.path[k + 1])
        /\ video.pc = "resolved" <=> video.path[Len(video.path)] = "Resolved"

\* A job that was polled twice before the handle was done has resolved.
C14_Witness ==
    /\ video.pc = "resolved"
    /\ video.polls = 2
    /\ video.path = <<"Submitted", "Polling", "Done", "Resolved">>

MediaChanges(i) ==
    /\ Len(generatedAssets') = Len(generatedAssets)
    /\ generatedAssets'[i].imageUrl # generatedAssets[i].imageUrl

\* C21: in the step in which the media reference of the asset the editor
\* shows changes, the editor is closed and its drawing layer is discarded
\* (the next editor starts on a transparent layer); and a mask with a
\* painted pixel is only ever submitted together with the image the
\* strokes were drawn over, which is the current media of the asset.
C21_NoStaleStrokes ==
    [][/\ \A i \in 1..Len(generatedAssets) :
             (MediaChanges(i) /\ editingAsset # Null
                  /\ editingAsset.id = generatedAssets[i].id)
             => (layer' = Blank /\ editingAsset' = Null /\ dimensions' = 0)
       /\ (RefineIssued /\ MaskOf(layer) = Opaque) =>
             LET call == refines'[Len(refines')]
                 i == Find(generatedAssets, editingAsset.id)
             IN  /\ i # 0
                 /\ editingAsset.imageUrl = generatedAssets[i].imageUrl
                 /\ call.sent[1] = stripBase64Prefix(editingAsset.imageUrl)]_vars

\* The first refine call succeeded and changed an asset with no earlier
\* history; the editor was opened again on that asset, a stroke was drawn
\* and submitted: the pending call carries the refined image.
C21_Witness ==
    /\ Len(refines) = 2
    /\ refines[1].out = "ok" /\ refines[2].st = "pending"
    /\ refines[2].sent[1].data = RefinedMedia(1)
    /\ refines[2].sent[2].data = Opaque
    /\ \E i \in 1..Len(generatedAssets) :
           /\ generatedAssets[i].id = refines[2].assetId
           /\ generatedAssets[i].history = EmptyHistory

\* The step in which refine call r succeeds.
RefineSucceeds(r) == refines[r].st = "pending" /\ refines'[r].out = "ok"

\* C22: the step in which a refine call succeeds keeps the length and the
\* order of the gallery; the target keeps its id and category and takes
\* the new image; every other asset is exactly as it was.
C22_RefineChangesOnlyTarget ==
    [][\A r \in RefineCalls : RefineSucceeds(r) =>
          /\ Len(generatedAssets') = Len(generatedAssets)
          /\ \A i \in 1..Len(generatedAssets) :
                 /\ generatedAssets'[i].id = generatedAssets[i].id
                 /\ generatedAssets'[i].category = generatedAssets[i].category
                 /\ IF generatedAssets[i].id = refines[r].assetId
                    THEN generatedAssets'[i].imageUrl = DataUrl(RefinedMedia(r))
                    ELSE generatedAssets'[i] = generatedAssets[i]]_vars

\* A refine call has succeeded on the second asset of a gallery of two;
\* the first, which has an earlier image in its history, is as it was
\* given.
C22_Witness ==
    /\ Len(generatedAssets) = 2
    /\ \E r \in RefineCalls :
           /\ refines[r].out = "ok"
           /\ generatedAssets[2].imageUrl = DataUrl(RefinedMedia(r))
    /\ generatedAssets[1] = TypedAsset(EditorCategories[1], 1)

\* C23: a job whose submission returned a handle that is already done
\* starts no timer and sends no poll request; every handle observed with
\* done = false starts exactly one timer, every timer that fired sent
\* exactly one poll request, and a done handle starts none: once the call
\* has ended the poll requests are as many as the handles with done =
\* false.
C23_PollsEqualNotDoneObservations ==
    video.pc # "none" =>
        /\ video.waits = video.notDone
        /\ video.polls = video.notDone - (IF video.pc = "waiting" THEN 1 ELSE 0)
        /\ (\A k \in 1..Len(video.path) : video.path[k] # "Polling")
               => (video.polls = 0 /\ video.waits = 0)
        /\ video.pc \in {"resolved", "failed"} => video.polls = video.notDone

\* The submission returned a done handle and the job has resolved without
\* a timer or a poll request.
C23_Witness ==
    /\ video.pc = "resolved"
    /\ video.path = <<"Submitted", "Done", "Resolved">>
    /\ video.polls = 0 /\ video.waits = 0

\* The step in which the call observes a handle with done = false.
ObservesNotDone ==
    /\ video.pc \in {"submitting", "polling"}
    /\ video'.notDone = video.notDone + 1
\* The step in which a poll request is sent.
PollSent == video.pc # "none" /\ video'.polls = video.polls + 1

\* C24: a handle observed with done = false, however many polls went
\* before, leaves the job in Polling with one new timer started; a poll
\* request is sent only when a timer fires, and it is the one timer started
\* since the handle was last observed; the job goes on to the download
\* only on a handle with done = true.
C24_PollingUntilDone ==
    [][/\ ObservesNotDone =>
             /\ video'.pc = "waiting"
             /\ video'.waits = video.waits + 1
             /\ \A k \in 1..Len(video'.path) : video'.path[k] \in {"Submitted", "Polling"}
       /\ PollSent =>
             /\ video.pc = "waiting" /\ video'.pc = "polling"
             /\ video.waits = video.polls + 1
             /\ video'.waits = video.waits
       /\ (video.pc \in {"submitting", "polling"}
               /\ video'.pc \notin {"submitting", "polling", "waiting", "failed"})
             => (video'.done /\ video'.pc = "fetching")]_vars

\* After MaxPolls poll requests that all returned a handle with done =
\* false the job is waiting to poll again.
C24_Witness ==
    /\ video.pc = "waiting"
    /\ video.polls = MaxPolls
    /\ video.notDone = MaxPolls + 1
    /\ video.waits = MaxPolls + 1

\* ------------------------------------------ claims: video job in a batch
\* The step in which the video call throws.
VideoFails == video.pc \notin {"none", "failed"} /\ video'.pc = "failed"
AssetsOfCategory(assets, c) == {i \in 1..Len(assets) : assets[i].category = c}

\* C25: a done job without a download link, or whose payload fetch fails,
\* ends in Failed having sent at most one fetch; Failed is terminal; the
\* failure stays with that job of the dispatch (no sibling job, no result
\* collected so far and not the status changes in that step) and neither
\* the results of the call nor the gallery ever hold an asset of the video
\* category.
C25_VideoFailureIsTerminal ==
    [][/\ video'.pc # "none" => video'.fetches <= 1
       /\ video.pc = "failed" => video' = video
       /\ VideoFails =>
             /\ batches'[video.batch] = batches[video.batch]
             /\ batches'[video.batch].st = "running"
             /\ status' = status /\ generatedAssets' = generatedAssets
       /\ video'.pc = "failed" =>
             /\ AssetsOfCategory(generatedAssets', video'.type) = {}
             /\ \A b \in 1..Len(batches') :
                    AssetsOfCategory(batches'[b].results, video'.type) = {}]_vars

\* The handle was done, the one payload fetch failed, and the dispatch has
\* returned: the gallery shows the sibling image asset and no video asset.
C25_Witness ==
    /\ video.pc = "failed"
    /\ video.fetches = 1
    /\ video.path[Len(video.path) - 1] = "Done"
    /\ batches[video.batch].st = "done"
    /\ Len(generatedAssets) = 1
    /\ generatedAssets[1].category \in Categories
    /\ status = "idle"

NoPayload(response) ==
    \A i \in 1..Len(response.parts) :
        \/ response.parts[i].inlineData = Undefined
        \/ response.parts[i].inlineData.data = Undefined

\* C27: a call whose generateContent returned a response without a media
\* payload throws; no asset is pushed to results and no asset of the
\* gallery is modified; the error thrown, and the report the caller makes
\* of it, differ from those of a rejected request.
C27_NoMediaIsItsOwnFailure ==
    [][(gateway.pc = "awaiting" /\ gateway'.pc = "ended"
            /\ gateway'.fulfilled /\ NoPayload(gateway'.response)) =>
          /\ gateway'.end.kind = "throws"
          /\ gateway'.end.value = Error(NoImageMessage(gateway.op))
          /\ gateway'.end # EndOfCall(gateway.op, FALSE, Null)
          /\ gateway'.report # Null
          /\ gateway'.report # ReportOf(gateway.op, EndOfCall(gateway.op, FALSE, Null))
          /\ gateway'.results = <<>>
          /\ generatedAssets' = generatedAssets]_vars

\* A refine call got a response whose only part has inline data without
\* data, and was alerted as "Failed to refine image".
C27_Witness ==
    /\ gateway.pc = "ended" /\ gateway.op = "refine"
    /\ gateway.fulfilled
    /\ gateway.response = [shape |-> "parts", parts |-> <<BarePart>>]
    /\ gateway.report.error = "Failed to refine image"

\* ---------------------------------------------------- claims: dispatcher
\* C28: every asset in the gallery has the media kind of its category:
\* video for 'Vertical Video' and 'Horizontal Video', image for any other.
C28_MediaKindMatchesCategory ==
    \A i \in 1..Len(generatedAssets) :
        generatedAssets[i].mediaType =
            IF generatedAssets[i].category \in VideoTypes THEN Str("video")
            ELSE Str("image")

\* The step in which handleGenerate is called as call b and every job of
\* it throws at getAIClient: no credential is configured.
DispatchedWithoutCredential(b) ==
    /\ Dispatched(b)
    /\ \A c \in Categories : batches'[b].jobs[c] \in {"none", "failed"}

\* C29: a dispatch started with no credential reports the failure: the
\* status becomes 'error'.
C29_MissingCredentialSurfaced ==
    [][\A b \in 1..Len(batches') :
          DispatchedWithoutCredential(b) => status' = "error"]_vars

Running == {b \in Batches : batches[b].st = "running"}

\* C30: at most one handleGenerate call is running at any time.
C30_OneBatchInFlight == Cardinality(Running) <= 1

\* C31: the gallery only ever holds assets generated from the profile in
\* brandDNA: a call that returns publishes assets only if the profile it
\* was started with is still the current one, and a step that replaces the
\* profile leaves no asset of an earlier profile in the gallery.
C31_GalleryOfCurrentProfile ==
    [][/\ \A b \in Batches :
             (Returns(b) /\ batches[b].results # <<>>) =>
                 (batches[b].dna = brandDNA' /\ Added = batches[b].results)
       /\ brandDNA' # brandDNA => generatedAssets' = <<>>]_vars

\* The refine calls the mounted <Editor> has submitted and that have not
\* settled.
PendingOfSession(rs) == {r \in 1..Len(rs) : rs[r].st = "pending" /\ rs[r].live}

\* C32: the processing flag is true exactly while a refine call of the
\* mounted editor is pending; in the step in which such a call settles and
\* the editor stays open, the flag is false again, so the session can
\* submit once more.
C32_ProcessingFlagFollowsCall ==
    [][/\ isProcessing' <=> PendingOfSession(refines') # {}
       /\ \A r \in PendingOfSession(refines) :
              (refines'[r].st # "pending" /\ editingAsset' # Null)
              => (~isProcessing' /\ editingAsset' = editingAsset)]_vars

\* The first refine call of a session failed, the editor stayed open and a
\* second call of the same session is pending.
C32_Witness ==
    /\ Len(refines) = 2
    /\ refines[1].out = "failed"
    /\ PendingOfSession(refines) = {2}
    /\ isProcessing
    /\ editingAsset # Null

\* Assets of the gallery with a refine call submitted and not yet settled.
InFlight == {refines[r].assetId : r \in {q \in RefineCalls : refines[q].st = "pending"}}

SettlesBesideOther(r) ==
    /\ refines[r].st = "pending"
    /\ refines'[r].st # "pending"
    /\ editingAsset # Null
    /\ editingAsset.id # refines[r].assetId

====
